---- MODULE Spec2Model ----
(***************************************************************************)
(* Imaginate portal: the Session Manager (src/src/contexts/AuthContext.tsx) *)
(* and the Asset History Manager (src/src/contexts/ImageContext.tsx) as     *)
(* state machines.  Every await of the source is a suspension point: the    *)
(* call step and each resumption are separate actions, so that handlers,    *)
(* operations and the initial session fetch interleave as they do on the    *)
(* browser's event loop.                                                     *)
(***************************************************************************)
EXTENDS Integers, Sequences, FiniteSets, TLC

VARIABLES
    user,        \* AuthProvider state `user` (NoUser models null)
    session,     \* AuthProvider state `session`: the id of session.user, or Null
    isLoading,   \* AuthProvider state `isLoading`
    remote,      \* Account Service: the account currently signed in there, or Null
    events,      \* session-change events pushed by the service, not yet delivered
    handlers,    \* onAuthStateChange callbacks suspended at an await
    lastEvt,     \* history: the most recently delivered session-change event
    initOp,      \* initializeAuth
    op,          \* the session operation the view layer has called (login,
                 \* signup, logout, loginWithGoogle / loginWithGithub)
    refreshOp,   \* refreshUser
    subscription, \* the onAuthStateChange subscription: "active" or "released"
    nStim,       \* number of stimuli so far: events emitted and calls made
                 \* (Spec); session changes published (SpecImg)
    history,         \* ImageProvider state `history`
    generatedImages, \* ImageProvider state `generatedImages`
    isGenerating,    \* ImageProvider state `isGenerating`
    ledger,          \* Asset Ledger: the rows of table images, oldest first
    objects,         \* Object Store: the paths stored in bucket images
    clock,           \* the last created_at the Asset Ledger handed out
    gens,            \* the generateImage calls, in call order
    loads,           \* loadUserImages calls started by the effect, in flight
    clearOp          \* clearHistory

authVars == <<user, session, isLoading, remote, events, handlers, lastEvt,
              initOp, op, refreshOp, subscription, nStim>>

imgVars == <<history, generatedImages, isGenerating, ledger, objects, clock, gens,
             loads, clearOp>>

vars == <<authVars, imgVars>>

----------------------------------------------------------------------------
(* Bounds of the model *)

\* stimuli of one run: the session-change events the Account Service emits plus
\* the calls of the Session Manager's operations the view layer makes
MaxStimuli == 3

\* Stimuli of one run of the Asset History Manager: the session changes
\* published to it plus the calls of generateImage and clearHistory.
MaxCalls == 2

----------------------------------------------------------------------------
(* Values *)

Null == "null"
NoEvt == "noEvt"
Users == {"A"}

\* The profiles table: account A has a row, any other account has none yet.
HasProfileRow(u) == u = "A"
ProfileRow(u) ==
    [id |-> u, name |-> "Ann", avatar_url |-> "a.png", subscription_tier |-> "pro",
     credits |-> 5]

\* user_metadata.name of the account: only A signed up with a name.
MetaName(u) == IF u = "A" THEN "Ann" ELSE Null
Email(u) == IF u = "A" THEN "a@x" ELSE "b@x"

NoUser ==
    [id |-> Null, email |-> Null, name |-> Null, avatarUrl |-> Null,
     subscriptionTier |-> Null, credits |-> 0]

mapDbProfileToProfile(row) ==
    [id |-> row.id, name |-> row.name, avatarUrl |-> row.avatar_url,
     subscriptionTier |-> row.subscription_tier, credits |-> row.credits]

\* Outcomes of fetchUserProfile: the row, or null (no row, an error, an exception).
ProfileOutcomes(u) == IF HasProfileRow(u) THEN {"row", "none"} ELSE {"none"}

\* The value setUserWithProfile passes to setUser.
ProfiledUserNull(u, outcome) == NoUser

ProfiledUserNoDefaults(u, outcome) ==
    IF outcome = "row"
    THEN [mapDbProfileToProfile(ProfileRow(u)) EXCEPT !.id = u] @@ [email |-> Email(u)]
    ELSE [id |-> u, email |-> Email(u), name |-> MetaName(u),
          avatarUrl |-> Null, subscriptionTier |-> Null, credits |-> 0]

ProfiledUser(u, outcome) ==
    IF outcome = "row"
    THEN [mapDbProfileToProfile(ProfileRow(u)) EXCEPT !.id = u] @@ [email |-> Email(u)]
    ELSE [id |-> u, email |-> Email(u),
          name |-> IF MetaName(u) # Null THEN MetaName(u) ELSE "User",
          avatarUrl |-> Null, subscriptionTier |-> "free", credits |-> 10]

isAuthenticated == user # NoUser

Op(kind, pc, arg, ok, err) == [kind |-> kind, pc |-> pc, arg |-> arg, ok |-> ok, err |-> err]
Idle == Op("none", "idle", Null, 0, 0)

\* An operation is in flight when it is suspended at one of its awaits.
InFlight(o) == o.pc \notin {"idle", "resolved", "rejected", "returned"}

RemoveAt(s, i) == [j \in 1..(Len(s) - 1) |-> IF j < i THEN s[j] ELSE s[j + 1]]

----------------------------------------------------------------------------
(* Construction: AuthProvider has mounted, its effect has called getSession   *)
(* and subscribed.  The service may hold a persisted session; getSession      *)
(* answers with what it read when it was called.                              *)

\* sess: the event's session; early: it was delivered before getSession resolved;
\* clean: since its delivery only event handlers have written user or session.
NoHistory == [sess |-> NoEvt, early |-> FALSE, clean |-> FALSE]

AuthInit ==
    /\ user = NoUser
    /\ session = Null
    /\ isLoading = TRUE
    /\ remote \in Users \cup {Null}
    /\ events = <<>>
    /\ handlers = <<>>
    /\ lastEvt = NoHistory
    /\ initOp = Op("init", "getSession", remote, 0, 0)
    /\ op = Idle
    /\ refreshOp = Op("refresh", "idle", Null, 0, 0)
    /\ subscription = "active"
    /\ nStim = 0

\* ImageProvider mounts with nothing generated and no history.
ImageInit ==
    /\ history = <<>>
    /\ generatedImages = <<>>
    /\ isGenerating = FALSE
    /\ ledger = <<>>
    /\ objects = {}
    /\ clock = 0
    /\ gens = <<>>
    /\ loads = <<>>
    /\ clearOp = [pc |-> "idle", uid |-> Null, who |-> Null, paths |-> {}, ok |-> 0,
                  err |-> 0, n |-> 0]

Init == AuthInit /\ ImageInit

Unclean == [lastEvt EXCEPT !.clean = FALSE]

----------------------------------------------------------------------------
(* initializeAuth *)

\* getSession resolves: setSession, then setUserWithProfile or setUser(null).
InitGetSessionResolve ==
    /\ initOp.pc = "getSession"
    /\ session' = initOp.arg
    /\ lastEvt' = Unclean
    /\ IF initOp.arg # Null
       THEN /\ initOp' = [initOp EXCEPT !.pc = "profile"]
            /\ UNCHANGED <<user, isLoading>>
       ELSE /\ user' = NoUser
            /\ isLoading' = FALSE
            /\ initOp' = [initOp EXCEPT !.pc = "resolved"]
    /\ UNCHANGED <<remote, events, handlers, op, refreshOp, nStim>>
    /\ UNCHANGED <<subscription, imgVars>>

\* getSession throws: catch sets user null, session is left as it was.
InitGetSessionThrow ==
    /\ initOp.pc = "getSession"
    /\ user' = NoUser
    /\ isLoading' = FALSE
    /\ lastEvt' = Unclean
    /\ initOp' = [initOp EXCEPT !.pc = "rejected"]
    /\ UNCHANGED <<session, remote, events, handlers, op, refreshOp, nStim>>
    /\ UNCHANGED <<subscription, imgVars>>

\* await setUserWithProfile(sessionData.session.user) resumes.
InitProfileResolve ==
    /\ initOp.pc = "profile"
    /\ \E o \in ProfileOutcomes(initOp.arg) : user' = ProfiledUser(initOp.arg, o)
    /\ isLoading' = FALSE
    /\ lastEvt' = Unclean
    /\ initOp' = [initOp EXCEPT !.pc = "resolved"]
    /\ UNCHANGED <<session, remote, events, handlers, op, refreshOp, nStim>>
    /\ UNCHANGED <<subscription, imgVars>>

----------------------------------------------------------------------------
(* The push channel.  src names what made the service emit the event: a call *)
(* of this client, or "push" (an OAuth callback completing, another tab, a   *)
(* token refresh).                                                            *)

Event(type, s, src) == [type |-> type, sess |-> s, src |-> src]

Emit(e) ==
    /\ nStim < MaxStimuli
    /\ nStim' = nStim + 1
    /\ events' = Append(events, e)

RemoteSignIn(u) ==
    /\ remote' = u
    /\ Emit(Event("SIGNED_IN", u, "push"))
    /\ UNCHANGED <<user, session, isLoading, handlers, lastEvt, initOp, op,
                   refreshOp>>
    /\ UNCHANGED <<subscription, imgVars>>

RemoteSignOut ==
    /\ remote # Null
    /\ remote' = Null
    /\ Emit(Event("SIGNED_OUT", Null, "push"))
    /\ UNCHANGED <<user, session, isLoading, handlers, lastEvt, initOp, op,
                   refreshOp>>
    /\ UNCHANGED <<subscription, imgVars>>

TokenRefreshed ==
    /\ remote # Null
    /\ Emit(Event("TOKEN_REFRESHED", remote, "push"))
    /\ UNCHANGED <<user, session, isLoading, remote, handlers, lastEvt, initOp,
                   op, refreshOp>>
    /\ UNCHANGED <<subscription, imgVars>>

----------------------------------------------------------------------------
(* The onAuthStateChange callback *)

\* The callback runs to its first await, or to its end when the session is null.
\* The service calls it only while the subscription stands.
DeliverEvent ==
    /\ subscription = "active"
    /\ events # <<>>
    /\ LET e == Head(events) IN
       /\ events' = Tail(events)
       /\ session' = e.sess
       /\ lastEvt' = [sess |-> e.sess, early |-> initOp.pc = "getSession",
                      clean |-> TRUE]
       /\ IF e.sess # Null
          THEN /\ handlers' = Append(handlers, [type |-> e.type, sess |-> e.sess,
                                                src |-> e.src, pc |-> "profile"])
               /\ isLoading' = TRUE
               /\ UNCHANGED user
          ELSE /\ user' = NoUser
               /\ isLoading' = FALSE
               /\ UNCHANGED handlers
    /\ UNCHANGED <<remote, initOp, op, refreshOp, nStim>>
    /\ UNCHANGED <<subscription, imgVars>>

\* await setUserWithProfile(currentSession.user) resumes.
HandlerProfileResolve(i) ==
    /\ handlers[i].pc = "profile"
    /\ \E o \in ProfileOutcomes(handlers[i].sess) :
          user' = ProfiledUser(handlers[i].sess, o)
    /\ IF handlers[i].type = "SIGNED_IN"
       THEN /\ handlers' = [handlers EXCEPT ![i].pc = "lastLogin"]
            /\ UNCHANGED isLoading
       ELSE /\ handlers' = RemoveAt(handlers, i)
            /\ isLoading' = FALSE
    /\ UNCHANGED <<session, remote, events, lastEvt, initOp, op, refreshOp, nStim>>
    /\ UNCHANGED <<subscription, imgVars>>

\* await updateLastLogin(currentSession.user.id) resumes; its errors are swallowed.
HandlerLastLoginResolve(i) ==
    /\ handlers[i].pc = "lastLogin"
    /\ handlers' = RemoveAt(handlers, i)
    /\ isLoading' = FALSE
    /\ UNCHANGED <<user, session, remote, events, lastEvt, initOp, op, refreshOp,
                   nStim>>
    /\ UNCHANGED <<subscription, imgVars>>

----------------------------------------------------------------------------
(* The view layer calls one session operation at a time (AuthModal disables  *)
(* its submit button while a call is pending).  The views are children of the *)
(* provider: once it is torn down they make no call.                          *)

Call(kind, pc, arg) ==
    /\ subscription = "active"
    /\ ~InFlight(op)
    /\ nStim < MaxStimuli
    /\ nStim' = nStim + 1
    /\ op' = Op(kind, pc, arg, 0, 0)
    /\ isLoading' = TRUE
    /\ UNCHANGED <<user, session, remote, events, handlers, lastEvt, initOp,
                   refreshOp>>
    /\ UNCHANGED <<subscription, imgVars>>

----------------------------------------------------------------------------
(* login *)

LoginOutcomes == {"ok", "invalid", "unconfirmed", "other"}

LoginCall(u) == Call("login", "signIn", u)

LoginRejectNoRethrow(o) ==
    /\ op' = [op EXCEPT !.pc = "resolved", !.err = @ + 1, !.arg = o]
    /\ isLoading' = FALSE
    /\ UNCHANGED <<user, session, remote, events, handlers, lastEvt, initOp,
                   refreshOp, nStim>>
    /\ UNCHANGED <<subscription, imgVars>>

\* signInWithPassword returned an error: throw, one toast.error, rethrow, finally.
LoginReject(o) ==
    /\ op' = [op EXCEPT !.pc = "rejected", !.err = @ + 1, !.arg = o]
    /\ isLoading' = FALSE
    /\ UNCHANGED <<user, session, remote, events, handlers, lastEvt, initOp,
                   refreshOp, nStim>>
    /\ UNCHANGED <<subscription, imgVars>>

\* await signInWithPassword(...) resumes.  On success the service holds the
\* session and emits SIGNED_IN; login goes on to await updateLastLogin.
LoginSignInResolve(o) ==
    /\ op.kind = "login"
    /\ op.pc = "signIn"
    /\ IF o = "ok"
       THEN /\ remote' = op.arg
            /\ Emit(Event("SIGNED_IN", op.arg, "login"))
            /\ op' = [op EXCEPT !.pc = "lastLogin"]
            /\ UNCHANGED <<user, session, isLoading, handlers, lastEvt, initOp, refreshOp>>
            /\ UNCHANGED <<subscription, imgVars>>
       ELSE LoginReject(o)

\* await updateLastLogin(data.user.id) resumes: toast.success, finally.
LoginLastLoginResolve ==
    /\ op.kind = "login"
    /\ op.pc = "lastLogin"
    /\ op' = [op EXCEPT !.pc = "resolved", !.ok = @ + 1]
    /\ isLoading' = FALSE
    /\ UNCHANGED <<user, session, remote, events, handlers, lastEvt, initOp,
                   refreshOp, nStim>>
    /\ UNCHANGED <<subscription, imgVars>>

----------------------------------------------------------------------------
(* signup *)

\* error: signUp returned an error; noUser: no error and data.user null;
\* existing: identities is empty; unconfirmed: confirmed_at unset;
\* confirmed: the account is confirmed at once and the service signs it in.
SignupOutcomes == {"error", "noUser", "existing", "unconfirmed", "confirmed"}

SignupCall(u) == Call("signup", "signUp", u)

SignupResolveSetsUser(o) ==
    /\ op.kind = "signup"
    /\ op.pc = "signUp"
    /\ isLoading' = FALSE
    /\ op' = CASE o = "error"    -> [op EXCEPT !.pc = "rejected", !.err = @ + 1]
               [] o = "noUser"   -> [op EXCEPT !.pc = "resolved"]
               [] o = "existing" -> [op EXCEPT !.pc = "resolved", !.err = @ + 1]
               [] OTHER          -> [op EXCEPT !.pc = "resolved", !.ok = @ + 1]
    /\ IF o = "confirmed"
       THEN /\ remote' = op.arg
            /\ Emit(Event("SIGNED_IN", op.arg, "signup"))
            /\ user' = ProfiledUser(op.arg, "none")
            /\ session' = op.arg
       ELSE UNCHANGED <<remote, events, nStim, user, session>>
    /\ UNCHANGED <<handlers, lastEvt, initOp, refreshOp>>
    /\ UNCHANGED <<subscription, imgVars>>

SignupResolve(o) ==
    /\ op.kind = "signup"
    /\ op.pc = "signUp"
    /\ isLoading' = FALSE
    /\ op' = CASE o = "error"    -> [op EXCEPT !.pc = "rejected", !.err = @ + 1]
               [] o = "noUser"   -> [op EXCEPT !.pc = "resolved"]
               [] o = "existing" -> [op EXCEPT !.pc = "resolved", !.err = @ + 1]
               [] OTHER          -> [op EXCEPT !.pc = "resolved", !.ok = @ + 1]
    /\ IF o = "confirmed"
       THEN /\ remote' = op.arg
            /\ Emit(Event("SIGNED_IN", op.arg, "signup"))
       ELSE UNCHANGED <<remote, events, nStim>>
    /\ UNCHANGED <<user, session, handlers, lastEvt, initOp, refreshOp>>
    /\ UNCHANGED <<subscription, imgVars>>

----------------------------------------------------------------------------
(* logout *)

LogoutCall == Call("logout", "signOut", Null)

\* signOut returned no error: setUser(null), toast.success, finally.
LogoutResolveOk ==
    /\ op.kind = "logout"
    /\ op.pc = "signOut"
    /\ remote' = Null
    /\ Emit(Event("SIGNED_OUT", Null, "logout"))
    /\ user' = NoUser
    /\ lastEvt' = Unclean
    /\ isLoading' = FALSE
    /\ op' = [op EXCEPT !.pc = "resolved", !.ok = @ + 1]
    /\ UNCHANGED <<session, handlers, initOp, refreshOp>>
    /\ UNCHANGED <<subscription, imgVars>>

\* signOut returned an error: throw, toast.error, rethrow, finally.
LogoutResolveError ==
    /\ op.kind = "logout"
    /\ op.pc = "signOut"
    /\ isLoading' = FALSE
    /\ op' = [op EXCEPT !.pc = "rejected", !.err = @ + 1]
    /\ UNCHANGED <<user, session, remote, events, handlers, lastEvt, initOp,
                   refreshOp, nStim>>
    /\ UNCHANGED <<subscription, imgVars>>

----------------------------------------------------------------------------
(* loginWithGoogle / loginWithGithub *)

Providers == {"google", "github"}

\* error: signInWithOAuth returned an error; noUrl: data.url is empty;
\* url: window.location.href is assigned and the function returns.
OAuthOutcomes == {"error", "noUrl", "url"}

OAuthCall(p) == Call("oauth", "signInWithOAuth", p)

OAuthResolve(o) ==
    /\ op.kind = "oauth"
    /\ op.pc = "signInWithOAuth"
    /\ isLoading' = FALSE
    /\ op' = IF o = "url"
             THEN [op EXCEPT !.pc = "resolved"]
             ELSE [op EXCEPT !.pc = "rejected", !.err = @ + 1]
    /\ UNCHANGED <<user, session, remote, events, handlers, lastEvt, initOp,
                   refreshOp, nStim>>
    /\ UNCHANGED <<subscription, imgVars>>

----------------------------------------------------------------------------
(* refreshUser *)

RefreshCallNoGuard ==
    /\ subscription = "active"
    /\ refreshOp.pc # "profile"
    /\ nStim < MaxStimuli
    /\ nStim' = nStim + 1
    /\ refreshOp' = Op("refresh", "profile", IF session = Null THEN "A" ELSE session,
                       0, 0)
    /\ UNCHANGED <<user, session, isLoading, remote, events, handlers, lastEvt,
                   initOp, op>>
    /\ UNCHANGED <<subscription, imgVars>>

\* if (!session?.user) return; otherwise await setUserWithProfile(session.user).
RefreshCall ==
    /\ subscription = "active"
    /\ refreshOp.pc # "profile"
    /\ nStim < MaxStimuli
    /\ nStim' = nStim + 1
    /\ refreshOp' = IF session = Null
                    THEN Op("refresh", "returned", Null, 0, 0)
                    ELSE Op("refresh", "profile", session, 0, 0)
    /\ UNCHANGED <<user, session, isLoading, remote, events, handlers, lastEvt,
                   initOp, op>>
    /\ UNCHANGED <<subscription, imgVars>>

\* await setUserWithProfile(session.user) resumes.
RefreshProfileResolve ==
    /\ refreshOp.pc = "profile"
    /\ \E o \in ProfileOutcomes(refreshOp.arg) : user' = ProfiledUser(refreshOp.arg, o)
    /\ lastEvt' = Unclean
    /\ refreshOp' = [refreshOp EXCEPT !.pc = "resolved"]
    /\ UNCHANGED <<session, isLoading, remote, events, handlers, initOp, op,
                   nStim>>
    /\ UNCHANGED <<subscription, imgVars>>

\* Navbar's effect on [isAuthenticated, refreshUser].  refreshUser is a new
\* function in every render of AuthProvider, and the setUser of a resumed
\* refreshUser passes a new object, which renders AuthProvider again: the effect
\* then runs once more and, the user being non-null, calls refreshUser.
NavbarEffect ==
    /\ subscription = "active"
    /\ refreshOp.pc = "resolved"
    /\ isAuthenticated
    /\ refreshOp' = IF session = Null
                    THEN Op("refresh", "returned", Null, 0, 0)
                    ELSE Op("refresh", "profile", session, 0, 0)
    /\ UNCHANGED <<user, session, isLoading, remote, events, handlers, lastEvt,
                   initOp, op, nStim>>
    /\ UNCHANGED <<subscription, imgVars>>

----------------------------------------------------------------------------
(* Teardown *)

\* The cleanup of the effect: subscription.unsubscribe().  React runs it once,
\* when AuthProvider unmounts.  Nothing that is suspended at an await is
\* cancelled.
Teardown ==
    /\ subscription = "active"
    /\ subscription' = "released"
    /\ UNCHANGED <<user, session, isLoading, remote, events, handlers, lastEvt,
                   initOp, op, refreshOp, nStim>>
    /\ UNCHANGED imgVars

----------------------------------------------------------------------------

Next ==
    \/ InitGetSessionResolve
    \/ InitGetSessionThrow
    \/ InitProfileResolve
    \/ \E u \in Users : RemoteSignIn(u)
    \/ RemoteSignOut
    \/ TokenRefreshed
    \/ DeliverEvent
    \/ \E i \in 1..Len(handlers) : HandlerProfileResolve(i)
    \/ \E i \in 1..Len(handlers) : HandlerLastLoginResolve(i)
    \/ \E u \in Users : LoginCall(u)
    \/ \E o \in LoginOutcomes : LoginSignInResolve(o)
    \/ LoginLastLoginResolve
    \/ \E u \in Users : SignupCall(u)
    \/ \E o \in SignupOutcomes : SignupResolve(o)
    \/ LogoutCall
    \/ LogoutResolveOk
    \/ LogoutResolveError
    \/ \E p \in Providers : OAuthCall(p)
    \/ \E o \in OAuthOutcomes : OAuthResolve(o)
    \/ RefreshCall
    \/ RefreshProfileResolve
    \/ NavbarEffect
    \/ Teardown

Spec == Init /\ [][Next]_vars

\* The steps that need no input: a pending request is answered, a pushed event
\* is delivered, an effect of a finished render runs.
InitSettles == InitGetSessionResolve \/ InitGetSessionThrow \/ InitProfileResolve

HandlerSettles ==
    \E i \in 1..Len(handlers) : HandlerProfileResolve(i) \/ HandlerLastLoginResolve(i)

OpSettles ==
    \/ \E o \in LoginOutcomes : LoginSignInResolve(o)
    \/ LoginLastLoginResolve
    \/ \E o \in SignupOutcomes : SignupResolve(o)
    \/ LogoutResolveOk
    \/ LogoutResolveError
    \/ \E o \in OAuthOutcomes : OAuthResolve(o)

\* The Session Manager with every request answered, every event delivered and
\* every effect run in the end.
SpecLive ==
    /\ Spec
    /\ WF_vars(InitSettles)
    /\ WF_vars(DeliverEvent)
    /\ WF_vars(HandlerSettles)
    /\ WF_vars(OpSettles)
    /\ WF_vars(RefreshProfileResolve)
    /\ WF_vars(NavbarEffect)

----------------------------------------------------------------------------
(* Asset History Manager: values *)

\* The accounts whose assets the ledger may hold.
Owners == {"A", "B"}

Whitespace == {" ", "\t"}

\* Prompts the view layer may pass: empty, whitespace only, and one that
\* starts with a space.
Prompts == {<<>>, <<" ", "\t">>, <<" ", "b">>}

RECURSIVE TrimStart(_)
TrimStart(p) ==
    IF p # <<>> /\ Head(p) \in Whitespace THEN TrimStart(Tail(p)) ELSE p

RECURSIVE TrimEnd(_)
TrimEnd(p) ==
    IF p # <<>> /\ p[Len(p)] \in Whitespace
    THEN TrimEnd(SubSeq(p, 1, Len(p) - 1))
    ELSE p

\* String.prototype.trim
Trim(p) == TrimEnd(TrimStart(p))

IsBlankNever(p) == FALSE

\* !prompt.trim()
IsBlank(p) == Trim(p) = <<>>

NoAsset == [id |-> 0, prompt |-> <<>>, imageUrl |-> "", createdAt |-> 0]

\* const imageUrl: the URL the pre-load tries first.
ImageUrl == "unsplash"

\* The URL imgCheck.onerror gives to imgCheck.src, of another category.
FallbackUrl == "fallback"

\* let newImage = {id: Date.now().toString(), prompt, imageUrl, createdAt};
\* the time a call reads is represented by the call's index t.
LocalAsset(p, t) == [id |-> t, prompt |-> p, imageUrl |-> ImageUrl, createdAt |-> t]

\* `${user.id}/${Date.now()}-${file.name}`
FilePath(uid, t) == [dir |-> uid, name |-> t]

\* insert({prompt, storage_path, user_id}); the service adds id and created_at.
NewRow(p, path, uid, t) ==
    [id |-> t, prompt |-> p, storage_path |-> path, user_id |-> uid, created_at |-> t]

FormatRowTrimmed(r, signed) ==
    [id |-> r.id, prompt |-> Trim(r.prompt),
     imageUrl |-> IF signed THEN "signed" ELSE "/placeholder.svg",
     createdAt |-> r.created_at]

\* One element of formattedImages: the signed URL, or the placeholder.
FormatRow(r, signed) ==
    [id |-> r.id, prompt |-> r.prompt,
     imageUrl |-> IF signed THEN "signed" ELSE "/placeholder.svg",
     createdAt |-> r.created_at]

FormatRows(rows, f) == [k \in 1..Len(rows) |-> FormatRow(rows[k], f[k])]

SameOrder(q) == q

Reverse(q) == [k \in 1..Len(q) |-> q[Len(q) + 1 - k]]

\* select('*').order('created_at', {ascending: false}) carries no filter: the
\* rows are those the service shows to the account `who` whose token the request
\* bears, its own rows, newest first.
Visible(who) == Reverse(SelectSeq(ledger, LAMBDA r : r.user_id = who))

DoneGens == {g \in 1..Len(gens) : gens[g].pc = "done"}

NewGen(p, uid) ==
    [pc |-> "preload", prompt |-> p, uid |-> uid, timer |-> TRUE, img |-> NoAsset,
     rowId |-> 0, who |-> Null, rows |-> <<>>, ok |-> 0, err |-> 0, ret |-> "none"]

\* A loadUserImages call of the effect; after remembers the generateImage calls
\* that had returned an asset for the account when the call was made.
NewLoad(who) ==
    [pc |-> "list", who |-> who, rows |-> <<>>,
     after |-> {g \in DoneGens : gens[g].uid = who /\ gens[g].ret = "asset"}]

ClearIdle ==
    [pc |-> "idle", uid |-> Null, who |-> Null, paths |-> {}, ok |-> 0, err |-> 0, n |-> 0]

\* The session changes published and the calls of generateImage and
\* clearHistory made so far.
nCalls == nStim + Len(gens) + clearOp.n

\* The user object published by the Session Manager for the account u.
Published(u) == ProfiledUser(u, IF HasProfileRow(u) THEN "row" ELSE "none")

\* The Session Manager has resolved the initial session: Anonymous, or
\* Authenticated as the first account with the effect's first loadUserImages
\* sent.  Nothing is generated and the ledger is empty.
InitImg ==
    /\ gens = <<>>
    /\ remote \in {Null, "A"}
    /\ session = remote
    /\ user = IF remote = Null THEN NoUser ELSE Published(remote)
    /\ loads = IF remote = Null THEN <<>> ELSE <<NewLoad(remote)>>
    /\ isLoading = FALSE
    /\ events = <<>>
    /\ handlers = <<>>
    /\ lastEvt = NoHistory
    /\ initOp = Op("init", "resolved", Null, 0, 0)
    /\ op = Idle
    /\ refreshOp = Op("refresh", "idle", Null, 0, 0)
    /\ subscription = "active"
    /\ nStim = 0
    /\ history = <<>>
    /\ generatedImages = <<>>
    /\ isGenerating = FALSE
    /\ ledger = <<>>
    /\ objects = {}
    /\ clock = 0
    /\ clearOp = ClearIdle

sessionRest == <<isLoading, events, handlers, lastEvt, initOp, op, refreshOp,
                 subscription>>

----------------------------------------------------------------------------
(* The effect on [isAuthenticated, user] *)

AuthChangeNoEffect(u) ==
    /\ nCalls < MaxCalls
    /\ nStim' = nStim + 1
    /\ ~(u = Null /\ user = NoUser)
    /\ session' = u
    /\ remote' = u
    /\ user' = IF u = Null THEN NoUser ELSE Published(u)
    /\ UNCHANGED <<history, loads>>
    /\ UNCHANGED <<generatedImages, isGenerating, ledger, objects, clock, gens, clearOp>>
    /\ UNCHANGED sessionRest

\* The Session Manager publishes a new user object (a sign-in, a refresh) or
\* null (a sign-out); the effect starts loadUserImages or empties history.
AuthChange(u) ==
    /\ nCalls < MaxCalls
    /\ nStim' = nStim + 1
    /\ ~(u = Null /\ user = NoUser)
    /\ session' = u
    /\ remote' = u
    /\ IF u = Null
       THEN /\ user' = NoUser
            /\ history' = <<>>
            /\ UNCHANGED loads
       ELSE /\ user' = Published(u)
            /\ loads' = Append(loads, NewLoad(u))
            /\ UNCHANGED history
    /\ UNCHANGED <<generatedImages, isGenerating, ledger, objects, clock, gens, clearOp>>
    /\ UNCHANGED sessionRest

----------------------------------------------------------------------------
(* loadUserImages, called by the effect *)

\* await select(...) resumes: the rows, or an error (toast.error, return).
LoadList(i, ok) ==
    /\ loads[i].pc = "list"
    /\ loads' = IF ok
                THEN [loads EXCEPT ![i].pc = "sign", ![i].rows = Visible(loads[i].who)]
                ELSE RemoveAt(loads, i)
    /\ UNCHANGED <<history, generatedImages, isGenerating, ledger, objects, clock, gens,
                   clearOp>>
    /\ UNCHANGED authVars

\* await Promise.all(createSignedUrl ...) resumes: setHistory(formattedImages).
LoadSign(i, f) ==
    /\ loads[i].pc = "sign"
    /\ history' = FormatRows(loads[i].rows, f)
    /\ loads' = RemoveAt(loads, i)
    /\ UNCHANGED <<generatedImages, isGenerating, ledger, objects, clock, gens, clearOp>>
    /\ UNCHANGED authVars

\* Promise.all rejects: catch, toast.error, history is left as it was.
LoadSignThrow(i) ==
    /\ loads[i].pc = "sign"
    /\ loads' = RemoveAt(loads, i)
    /\ UNCHANGED <<history, generatedImages, isGenerating, ledger, objects, clock, gens,
                   clearOp>>
    /\ UNCHANGED authVars

----------------------------------------------------------------------------
(* generateImage *)

\* A blank prompt: toast.error, return null.  Otherwise setIsGenerating(true)
\* and the pre-load of the image starts; user is the one of the render that
\* created the function.
GenCall(p) ==
    /\ nCalls < MaxCalls
    /\ IF IsBlank(p)
       THEN /\ gens' = Append(gens, [NewGen(p, user.id) EXCEPT
                                        !.pc = "done", !.err = 1, !.ret = "null"])
            /\ UNCHANGED isGenerating
       ELSE /\ gens' = Append(gens, NewGen(p, user.id))
            /\ isGenerating' = TRUE
    /\ UNCHANGED <<history, generatedImages, ledger, objects, clock, loads, clearOp>>
    /\ UNCHANGED authVars

\* setGeneratedImages(prev => [newImage, ...prev]); toast.success; return
\* newImage; finally setIsGenerating(false).
GenReturn(g, rec) ==
    /\ gens' = [gens EXCEPT ![g] = [rec EXCEPT !.pc = "done", !.ok = @ + 1,
                                               !.ret = "asset", !.who = Null,
                                               !.rows = <<>>, !.timer = FALSE]]
    /\ generatedImages' = <<rec.img>> \o generatedImages
    /\ isGenerating' = FALSE

GenPersistFailNull(g) ==
    /\ gens' = [gens EXCEPT ![g].pc = "done", ![g].err = @ + 1, ![g].ret = "null",
                            ![g].who = Null, ![g].rows = <<>>, ![g].timer = FALSE]
    /\ isGenerating' = FALSE
    /\ UNCHANGED generatedImages

\* The inner catch: toast.error('... could not be saved ...'), then the return.
GenPersistFail(g) == GenReturn(g, [gens[g] EXCEPT !.err = @ + 1])

\* imgCheck.onload: the promise resolves and newImage is built.
GenPreloadLoad(g) ==
    /\ gens[g].pc = "preload"
    /\ LET rec == [gens[g] EXCEPT !.img = LocalAsset(gens[g].prompt, g)] IN
       IF rec.uid # Null
       THEN /\ gens' = [gens EXCEPT ![g] = [rec EXCEPT !.pc = "fetch"]]
            /\ UNCHANGED <<generatedImages, isGenerating>>
       ELSE GenReturn(g, rec)
    /\ UNCHANGED <<history, ledger, objects, clock, loads, clearOp>>
    /\ UNCHANGED authVars

\* imgCheck.onerror: clearTimeout, and a fallback URL is given to imgCheck.src.
\* It fires for the first URL and again for every fallback that fails to load.
GenPreloadError(g) ==
    /\ gens[g].pc = "preload"
    /\ gens' = [gens EXCEPT ![g].timer = FALSE]
    /\ UNCHANGED <<history, generatedImages, isGenerating, ledger, objects, clock, loads,
                   clearOp>>
    /\ UNCHANGED authVars

\* The 15 s timer fires: reject, the outer catch, toast.error, return null,
\* finally setIsGenerating(false).
GenPreloadTimeout(g) ==
    /\ gens[g].pc = "preload"
    /\ gens[g].timer
    /\ gens' = [gens EXCEPT ![g].pc = "done", ![g].err = @ + 1, ![g].ret = "null",
                            ![g].timer = FALSE]
    /\ isGenerating' = FALSE
    /\ UNCHANGED <<history, generatedImages, ledger, objects, clock, loads, clearOp>>
    /\ UNCHANGED authVars

\* await fetch(imageUrl), await response.blob(): a blob, or a throw / empty blob.
GenFetch(g, ok) ==
    /\ gens[g].pc = "fetch"
    /\ IF ok
       THEN /\ gens' = [gens EXCEPT ![g].pc = "upload"]
            /\ UNCHANGED <<generatedImages, isGenerating>>
       ELSE GenPersistFail(g)
    /\ UNCHANGED <<history, ledger, objects, clock, loads, clearOp>>
    /\ UNCHANGED authVars

\* await storage.upload(filePath, file)
GenUpload(g, ok) ==
    /\ gens[g].pc = "upload"
    /\ IF ok
       THEN /\ gens' = [gens EXCEPT ![g].pc = "insert"]
            /\ objects' = objects \cup {FilePath(gens[g].uid, g)}
            /\ UNCHANGED <<generatedImages, isGenerating>>
       ELSE /\ GenPersistFail(g)
            /\ UNCHANGED objects
    /\ UNCHANGED <<history, ledger, clock, loads, clearOp>>
    /\ UNCHANGED authVars

\* await from('images').insert(...).select('*').single()
GenInsert(g, ok) ==
    /\ gens[g].pc = "insert"
    /\ IF ok
       THEN /\ clock' = clock + 1
            /\ ledger' = Append(ledger,
                                NewRow(gens[g].prompt,
                                       FilePath(gens[g].uid, g),
                                       gens[g].uid, clock + 1))
            /\ gens' = [gens EXCEPT ![g].pc = "sign", ![g].rowId = clock + 1]
            /\ UNCHANGED <<generatedImages, isGenerating>>
       ELSE /\ GenPersistFail(g)
            /\ UNCHANGED <<ledger, clock>>
    /\ UNCHANGED <<history, objects, loads, clearOp>>
    /\ UNCHANGED authVars

\* await createSignedUrl(uploadData.path, 3600): newImage becomes the saved row
\* with the signed URL, and loadUserImages is called.
GenSign(g, ok) ==
    /\ gens[g].pc = "sign"
    /\ IF ok
       THEN /\ \E k \in 1..Len(ledger) :
                  /\ ledger[k].id = gens[g].rowId
                  /\ gens' = [gens EXCEPT ![g].pc = "reloadList", ![g].who = remote,
                                          ![g].img = FormatRow(ledger[k], TRUE)]
            /\ UNCHANGED <<generatedImages, isGenerating>>
       ELSE GenPersistFail(g)
    /\ UNCHANGED <<history, ledger, objects, clock, loads, clearOp>>
    /\ UNCHANGED authVars

\* loadUserImages inside generateImage: await select(...) resumes.
GenReloadList(g, ok) ==
    /\ gens[g].pc = "reloadList"
    /\ IF ok
       THEN /\ gens' = [gens EXCEPT ![g].pc = "reloadSign",
                                    ![g].rows = Visible(gens[g].who)]
            /\ UNCHANGED <<generatedImages, isGenerating>>
       ELSE GenPersistFail(g)
    /\ UNCHANGED <<history, ledger, objects, clock, loads, clearOp>>
    /\ UNCHANGED authVars

\* loadUserImages inside generateImage: setHistory(formattedImages), then the
\* return of generateImage.
GenReloadSign(g, f) ==
    /\ gens[g].pc = "reloadSign"
    /\ history' = FormatRows(gens[g].rows, f)
    /\ GenReturn(g, gens[g])
    /\ UNCHANGED <<ledger, objects, clock, loads, clearOp>>
    /\ UNCHANGED authVars

\* loadUserImages inside generateImage: Promise.all rejects, its catch toasts.
GenReloadSignThrow(g) ==
    /\ gens[g].pc = "reloadSign"
    /\ GenPersistFail(g)
    /\ UNCHANGED <<history, ledger, objects, clock, loads, clearOp>>
    /\ UNCHANGED authVars

----------------------------------------------------------------------------
(* clearHistory *)

RowPaths(rows) == {rows[k].storage_path : k \in 1..Len(rows)}

ClearCallSilent ==
    /\ clearOp.pc \in {"idle", "done"}
    /\ nCalls < MaxCalls
    /\ IF user = NoUser
       THEN /\ history' = <<>>
            /\ clearOp' = [ClearIdle EXCEPT !.pc = "done", !.n = clearOp.n + 1]
       ELSE /\ clearOp' = [ClearIdle EXCEPT !.pc = "select", !.uid = user.id,
                                            !.who = remote, !.n = clearOp.n + 1]
            /\ UNCHANGED history
    /\ UNCHANGED <<generatedImages, isGenerating, ledger, objects, clock, gens, loads>>
    /\ UNCHANGED authVars

\* Anonymous: setHistory([]) and toast.success.  Authenticated: the select of
\* the storage paths is sent.
ClearCall ==
    /\ clearOp.pc \in {"idle", "done"}
    /\ nCalls < MaxCalls
    /\ IF user = NoUser
       THEN /\ history' = <<>>
            /\ clearOp' = [ClearIdle EXCEPT !.pc = "done", !.ok = 1, !.n = clearOp.n + 1]
       ELSE /\ clearOp' = [ClearIdle EXCEPT !.pc = "select", !.uid = user.id,
                                            !.who = remote, !.n = clearOp.n + 1]
            /\ UNCHANGED history
    /\ UNCHANGED <<generatedImages, isGenerating, ledger, objects, clock, gens, loads>>
    /\ UNCHANGED authVars

\* The catch of clearHistory: toast.error.
ClearFail == clearOp' = [clearOp EXCEPT !.pc = "done", !.err = @ + 1, !.paths = {}]

\* await select('storage_path') resumes.
ClearSelect(ok) ==
    /\ clearOp.pc = "select"
    /\ IF ok
       THEN LET paths == RowPaths(Visible(clearOp.who)) IN
            clearOp' = [clearOp EXCEPT !.paths = paths,
                                       !.pc = IF paths # {} THEN "remove" ELSE "delete"]
       ELSE ClearFail
    /\ UNCHANGED <<history, generatedImages, isGenerating, ledger, objects, clock, gens,
                   loads>>
    /\ UNCHANGED authVars

ClearRemoveStrict(ok) ==
    /\ clearOp.pc = "remove"
    /\ IF ok
       THEN /\ clearOp' = [clearOp EXCEPT !.pc = "delete"]
            /\ objects' = objects \ clearOp.paths
       ELSE /\ ClearFail
            /\ UNCHANGED objects
    /\ UNCHANGED <<history, generatedImages, isGenerating, ledger, clock, gens, loads>>
    /\ UNCHANGED authVars

\* await storage.remove(paths) resumes; an error is only logged.
ClearRemove(ok) ==
    /\ clearOp.pc = "remove"
    /\ clearOp' = [clearOp EXCEPT !.pc = "delete"]
    /\ objects' = IF ok THEN objects \ clearOp.paths ELSE objects
    /\ UNCHANGED <<history, generatedImages, isGenerating, ledger, clock, gens, loads>>
    /\ UNCHANGED authVars

\* await delete().eq('user_id', user.id) resumes.
ClearDelete(ok) ==
    /\ clearOp.pc = "delete"
    /\ IF ok
       THEN /\ ledger' = SelectSeq(ledger, LAMBDA r : r.user_id # clearOp.uid)
            /\ history' = <<>>
            /\ clearOp' = [clearOp EXCEPT !.pc = "done", !.ok = @ + 1, !.paths = {}]
       ELSE /\ ClearFail
            /\ UNCHANGED <<ledger, history>>
    /\ UNCHANGED <<generatedImages, isGenerating, objects, clock, gens, loads>>
    /\ UNCHANGED authVars

----------------------------------------------------------------------------

Flags(n) == [1..n -> BOOLEAN]

NextImg ==
    \/ \E u \in Owners \cup {Null} : AuthChange(u)
    \/ \E i \in 1..Len(loads) : \E ok \in BOOLEAN : LoadList(i, ok)
    \/ \E i \in 1..Len(loads) : \E f \in Flags(Len(loads[i].rows)) : LoadSign(i, f)
    \/ \E i \in 1..Len(loads) : LoadSignThrow(i)
    \/ \E p \in Prompts : GenCall(p)
    \/ \E g \in 1..Len(gens) : GenPreloadLoad(g)
    \/ \E g \in 1..Len(gens) : GenPreloadError(g)
    \/ \E g \in 1..Len(gens) : GenPreloadTimeout(g)
    \/ \E g \in 1..Len(gens) : \E ok \in BOOLEAN : GenFetch(g, ok)
    \/ \E g \in 1..Len(gens) : \E ok \in BOOLEAN : GenUpload(g, ok)
    \/ \E g \in 1..Len(gens) : \E ok \in BOOLEAN : GenInsert(g, ok)
    \/ \E g \in 1..Len(gens) : \E ok \in BOOLEAN : GenSign(g, ok)
    \/ \E g \in 1..Len(gens) : \E ok \in BOOLEAN : GenReloadList(g, ok)
    \/ \E g \in 1..Len(gens) : \E f \in Flags(Len(gens[g].rows)) : GenReloadSign(g, f)
    \/ \E g \in 1..Len(gens) : GenReloadSignThrow(g)
    \/ ClearCall
    \/ \E ok \in BOOLEAN : ClearSelect(ok)
    \/ \E ok \in BOOLEAN : ClearRemove(ok)
    \/ \E ok \in BOOLEAN : ClearDelete(ok)

SpecImg == InitImg /\ [][NextImg]_vars

\* What settles by itself once generateImage call g waits for it: the 15 s
\* timer while it is armed, and each awaited request of the persistence steps.
\* Whether an image ever loads is up to the image host.
GenSettles(g) ==
    /\ g \in 1..Len(gens)
    /\ \/ GenPreloadTimeout(g)
       \/ \E ok \in BOOLEAN : GenFetch(g, ok)
       \/ \E ok \in BOOLEAN : GenUpload(g, ok)
       \/ \E ok \in BOOLEAN : GenInsert(g, ok)
       \/ \E ok \in BOOLEAN : GenSign(g, ok)
       \/ \E ok \in BOOLEAN : GenReloadList(g, ok)
       \/ \E f \in Flags(Len(gens[g].rows)) : GenReloadSign(g, f)
       \/ GenReloadSignThrow(g)

\* The Asset History Manager with every timer firing and every request
\* answered in the end.
SpecImgLive == SpecImg /\ \A g \in 1..MaxCalls : WF_vars(GenSettles(g))

----------------------------------------------------------------------------
(* Properties of the Session Manager *)

Anonymous == user = NoUser /\ session = Null

\* Nothing of the Session Manager is suspended at an await and no event waits.
Quiescent ==
    /\ ~InFlight(initOp)
    /\ ~InFlight(op)
    /\ ~InFlight(refreshOp)
    /\ handlers = <<>>
    /\ events = <<>>

LogoutReturns == op.kind = "logout" /\ op.pc = "signOut" /\ ~InFlight(op')

\* C1: whenever logout returns, whether signOut succeeded or failed, the user
\* is null (the state is Anonymous).
C1_LogoutAlwaysClearsUser == [][LogoutReturns => user' = NoUser]_vars

\* C2: when the only session-change event, carrying a valid session, was
\* delivered before getSession resolved, then once its handler and
\* initializeAuth have both finished, session and user are the event's.
C2_EventNotOverwrittenByInitialFetch ==
    (/\ lastEvt.early
     /\ lastEvt.sess \in Users
     /\ nStim = 1
     /\ Quiescent)
    => (session = lastEvt.sess /\ user.id = lastEvt.sess)

LoginResolves == op.kind = "login" /\ op.pc = "lastLogin" /\ op'.pc = "resolved"

LoginStep == op.kind = "login" /\ InFlight(op) /\ op' # op

\* The handler of the SIGNED_IN event that login's sign-in made the service emit
\* resumes from its profile fetch.
LoginEventHandled(i) ==
    /\ handlers[i].src = "login"
    /\ handlers[i].pc = "profile"
    /\ Len(handlers') = Len(handlers)
    /\ handlers'[i].pc = "lastLogin"

C4_InvalidCredentialsRejects ==
    [][(/\ op.kind = "login"
        /\ op.pc = "signIn"
        /\ op' # op
        /\ op'.arg = "invalid"
        /\ Anonymous)
       => (/\ op'.pc = "rejected"
           /\ op'.err = 1
           /\ op'.ok = 0
           /\ user' = NoUser
           /\ session' = Null)]_vars

C4_Witness ==
    /\ op.kind = "login"
    /\ op.pc = "rejected"
    /\ op.arg = "invalid"
    /\ op.err = 1
    /\ Anonymous

RefreshCalled == refreshOp.pc # "profile" /\ refreshOp' # refreshOp

\* C7: refreshUser called while Anonymous returns at once: no profile fetch is
\* started, no call reaches the Account Service, and user, session and
\* isLoading are unchanged.
C7_RefreshWhileAnonymousIsNoOp ==
    [][(RefreshCalled /\ Anonymous)
       => (/\ refreshOp'.pc = "returned"
           /\ UNCHANGED <<user, session, isLoading, remote, events>>)]_vars

C7_Witness == refreshOp.pc = "returned" /\ Anonymous /\ ~InFlight(initOp)

\* C8: once the handlers of all delivered events have finished, and nothing but
\* event handlers wrote since the last delivery, session and user are those of
\* the event delivered last.
C8_LastEventSupersedes ==
    (/\ lastEvt.sess # NoEvt
     /\ lastEvt.clean
     /\ handlers = <<>>)
    => (session = lastEvt.sess /\ user.id = lastEvt.sess)

\* C9: whenever nothing is in flight, user is non-null exactly when the cached
\* session is non-null.
C9_ConsistentWhenQuiescent == Quiescent => ((user = NoUser) <=> (session = Null))

----------------------------------------------------------------------------
(* Properties of the Asset History Manager *)

\* C5: every state-changing operation ends in exactly one notification, a
\* success or a failure, never both and never none: each finished call of
\* generateImage, clearHistory, login, signup, logout and the OAuth logins has
\* emitted one toast in all.
C5_ExactlyOneNotification ==
    /\ \A g \in DoneGens : gens[g].ok + gens[g].err = 1
    /\ clearOp.pc = "done" => clearOp.ok + clearOp.err = 1
    /\ op.pc \in {"resolved", "rejected"} => op.ok + op.err = 1

AllWhitespace(p) == \A k \in 1..Len(p) : p[k] \in Whitespace

\* The step is a call of generateImage with an empty or whitespace-only prompt.
BlankGenCalled ==
    /\ Len(gens') = Len(gens) + 1
    /\ AllWhitespace(gens'[Len(gens')].prompt)

\* C6: generateImage with an empty or whitespace-only prompt returns null,
\* emits one validation notification and no success, starts no external call,
\* and leaves history, generatedImages, isGenerating, the ledger and the
\* object store as they were.
C6_BlankPromptRejected ==
    [][BlankGenCalled =>
          /\ gens'[Len(gens')].pc = "done"
          /\ gens'[Len(gens')].ret = "null"
          /\ gens'[Len(gens')].err = 1
          /\ gens'[Len(gens')].ok = 0
          /\ UNCHANGED <<history, generatedImages, isGenerating, ledger, objects, loads,
                         clearOp>>]_vars

\* A whitespace-only prompt was rejected while history held a saved asset.
C6_Witness ==
    /\ history # <<>>
    /\ \E g \in DoneGens :
          /\ gens[g].prompt = <<" ", "\t">>
          /\ gens[g].ret = "null"
          /\ gens[g].err = 1

\* The asset of call g is among the elements of h, prompt identical and the
\* URL not empty.
Shows(h, g) ==
    \E k \in 1..Len(h) : h[k].prompt = gens[g].prompt /\ h[k].imageUrl # ""

Ids(rows) == {rows[k].id : k \in 1..Len(rows)}

\* The ledger row call g inserted is still in the ledger.
Saved(g) == gens[g].rowId # 0 /\ gens[g].rowId \in Ids(ledger)

\* Every row read appears in the installed history h under its id, with the
\* prompt of the call that inserted it and a URL that is not empty.
RowsShown(rows, h) ==
    \A k \in 1..Len(rows) : \A g \in 1..Len(gens) :
        gens[g].rowId = rows[k].id =>
            \E j \in 1..Len(h) : /\ h[j].id = rows[k].id
                                 /\ h[j].prompt = gens[g].prompt
                                 /\ h[j].imageUrl # ""

C11_AnonymousGenerateReturnsAsset ==
    \A g \in DoneGens :
        (gens[g].uid = Null /\ ~AllWhitespace(gens[g].prompt)) =>
            /\ gens[g].ret = "asset"
            /\ gens[g].img.prompt = gens[g].prompt
            /\ gens[g].img.imageUrl # ""
            /\ gens[g].rowId = 0
            /\ FilePath(Null, g) \notin objects

PersistPcs == {"fetch", "upload", "insert", "sign", "reloadList", "reloadSign"}

\* Call g leaves a persistence step through a failure: it ends having emitted
\* one more failure notification.
PersistenceFailed(g) ==
    /\ gens[g].pc \in PersistPcs
    /\ gens'[g].pc = "done"
    /\ gens'[g].err = gens[g].err + 1

\* C12: when a persistence step of generateImage fails (fetch, upload, insert,
\* signed URL, reload) the call still returns the asset with the prompt it was
\* given and a URL that is not empty, prepends it to generatedImages and sets
\* isGenerating to false.
C12_PersistenceFailureStillReturns ==
    [][\A g \in 1..Len(gens) :
          PersistenceFailed(g) =>
              /\ gens'[g].ret = "asset"
              /\ gens'[g].img.prompt = gens[g].prompt
              /\ gens'[g].img.imageUrl # ""
              /\ generatedImages' = <<gens'[g].img>> \o generatedImages
              /\ isGenerating' = FALSE]_vars

\* An authenticated call whose upload succeeded and whose later step failed has
\* returned its asset, which heads generatedImages.
C12_Witness ==
    \E g \in DoneGens :
        /\ gens[g].uid # Null
        /\ gens[g].err = 1
        /\ gens[g].ret = "asset"
        /\ FilePath(gens[g].uid, g) \in objects
        /\ generatedImages # <<>>
        /\ Head(generatedImages) = gens[g].img
        /\ ~isGenerating

\* A call of clearHistory returns on this step.
ClearFinishes == clearOp' # clearOp /\ clearOp'.pc = "done"

\* C13 as stated: whenever clearHistory returns, history is empty and one
\* success notification and no failure was emitted, whatever the Object Store
\* and the Asset Ledger answered.
C13_ClearAlwaysEmptiesAndConfirms ==
    [][ClearFinishes =>
          (history' = <<>> /\ clearOp'.ok = 1 /\ clearOp'.err = 0)]_vars

\* The select of the paths or the deletion of the rows answered with an error.
LedgerCallFailed == ClearSelect(FALSE) \/ ClearDelete(FALSE)

\* C13, amended: clearHistory returns with history empty and one success
\* notification on the anonymous path and, on the authenticated path, when
\* the select and the row deletion succeed, whatever the object removal
\* answered (its outcome never ends the call); when the select or the row
\* deletion fails it returns with one failure notification, no success, and
\* history and ledger as they were.
C13_ClearEmptiesUnlessLedgerFails ==
    [][/\ ClearFinishes =>
             \/ (history' = <<>> /\ clearOp'.ok = 1 /\ clearOp'.err = 0)
             \/ (/\ LedgerCallFailed
                 /\ clearOp'.ok = 0
                 /\ clearOp'.err = 1
                 /\ UNCHANGED <<history, ledger>>)
       /\ (clearOp.pc = "remove" /\ clearOp' # clearOp) => clearOp'.pc = "delete"
       /\ (clearOp.pc = "delete" /\ ClearDelete(TRUE)) => ClearFinishes]_vars

\* clearHistory confirmed on the authenticated path although an object of the
\* account is still stored: the rows are gone and history is empty.
C13_Witness ==
    /\ clearOp.pc = "done"
    /\ clearOp.ok = 1
    /\ clearOp.uid # Null
    /\ \E o \in objects : o.dir = clearOp.uid
    /\ \A k \in 1..Len(ledger) : ledger[k].user_id # clearOp.uid
    /\ history = <<>>

\* C14 as stated: a clearHistory call that finds history empty returns with
\* history empty and a success notification, the first time and the second.
C14_ClearOnEmptyConfirms ==
    [][(ClearFinishes /\ history = <<>>) =>
          (history' = <<>> /\ clearOp'.ok = 1 /\ clearOp'.err = 0)]_vars

\* C14, amended: a clearHistory call that finds history empty leaves it empty,
\* the first time and the second, and emits exactly one notification: a
\* success, unless the select or the row deletion of the authenticated path
\* answered with an error, in which case it is the failure notification.
C14_ClearOnEmptyIdempotent ==
    [][(ClearFinishes /\ history = <<>>) =>
          /\ history' = <<>>
          /\ clearOp'.ok + clearOp'.err = 1
          /\ clearOp'.err = 1 => LedgerCallFailed]_vars

\* The second of two clearHistory calls in a row, authenticated, nothing ever
\* generated: it confirmed and history is empty.
C14_Witness ==
    /\ clearOp.n = 2
    /\ clearOp.pc = "done"
    /\ clearOp.ok = 1
    /\ clearOp.uid # Null
    /\ gens = <<>>
    /\ nStim = 0
    /\ history = <<>>

----------------------------------------------------------------------------
(* Further properties of the Session Manager *)

\* C15: a login, signup or logout that has returned emitted a failure message
\* exactly when it rejected: a rejected call emitted one, and a call that
\* emitted one did not resolve.
C15_FailureMessageIffRejected ==
    (op.kind \in {"login", "signup", "logout"} /\ op.pc \in {"resolved", "rejected"})
    => ((op.pc = "rejected") <=> (op.err = 1)) /\ op.err \in {0, 1}

\* refreshUser resumes from its profile fetch.
RefreshResumes == refreshOp.pc = "profile" /\ refreshOp'.pc = "resolved"

\* C16: when refreshUser of the authenticated account resumes, every profile
\* field of user holds either the value of the profile row or the value it
\* held before; no field is reset to null or to a default.
C16_RefreshPreservesLocalFields ==
    [][(RefreshResumes /\ user # NoUser /\ user.id = refreshOp.arg) =>
          LET row == mapDbProfileToProfile(ProfileRow(refreshOp.arg)) IN
          /\ user'.id = user.id
          /\ user'.name \in {user.name, row.name}
          /\ user'.avatarUrl \in {user.avatarUrl, row.avatarUrl}
          /\ user'.subscriptionTier \in {user.subscriptionTier, row.subscriptionTier}
          /\ user'.credits \in {user.credits, row.credits}]_vars


\* A step of signup: its call or its resumption.
SignupStep == op'.kind = "signup" /\ op' # op

\* C20: no step of signup, from its call to its return, changes user or
\* session; when the service signs the new account in, a SIGNED_IN event for it
\* is under way, and it is the handler of that event that sets them.
C20_SignupDoesNotAuthenticate ==
    [][SignupStep =>
          /\ UNCHANGED <<user, session>>
          /\ remote' # remote =>
                \E k \in 1..Len(events') :
                    events'[k] = Event("SIGNED_IN", op.arg, "signup")]_vars

\* signup has resolved for an account that had no session, and the handler of
\* the SIGNED_IN event it caused has made the account the user.
C20_Witness ==
    /\ op.kind = "signup"
    /\ op.pc = "resolved"
    /\ initOp.arg = Null
    /\ \E i \in 1..Len(handlers) :
          handlers[i].src = "signup" /\ handlers[i].pc = "lastLogin"
    /\ user.id = op.arg
    /\ session = op.arg

----------------------------------------------------------------------------
(* Further properties of the Asset History Manager *)

\* C17: every step that changes user to a non-null user starts a
\* loadUserImages for that account, and every step that changes user to null
\* sets history to empty.
C17_HistoryFollowsSession ==
    [][user' # user =>
          IF user' # NoUser
          THEN /\ Len(loads') = Len(loads) + 1
               /\ loads'[Len(loads')].pc = "list"
               /\ loads'[Len(loads')].who = user'.id
          ELSE history' = <<>>]_vars

\* The account saved an asset, then signed out: the user is null, the row is
\* still in the ledger and history is empty.
C17_Witness ==
    /\ user = NoUser
    /\ nStim > 0
    /\ history = <<>>
    /\ \E g \in DoneGens : Saved(g) /\ gens[g].img.imageUrl = "signed"

\* The account that inserted the ledger row with this id.
OwnerOf(id) == {gens[g].uid : g \in {h \in 1..Len(gens) : gens[h].rowId = id}}

\* C18: while an account is authenticated, history holds no row owned by
\* another account.
C18_HistoryOnlyOwnRows ==
    user # NoUser =>
        \A k \in 1..Len(history) : OwnerOf(history[k].id) \subseteq {user.id}

\* C19: in every reachable state history is ordered newest first: createdAt
\* does not increase from an element to the next.
C19_HistoryNewestFirst ==
    \A j, k \in 1..Len(history) :
        j < k => history[j].createdAt >= history[k].createdAt

\* History holds two saved assets, the later one first.
C19_Witness ==
    /\ Len(history) >= 2
    /\ history[1].createdAt > history[2].createdAt

----------------------------------------------------------------------------
(* Teardown and lifetime *)

\* A step of a session-change handler: a delivery, or a resumption.
HandlerStep == handlers' # handlers

\* C21: the subscription made at construction is released once, at teardown,
\* and stays released; after teardown no step of a session-change handler
\* changes user, session or isLoading.
C21_ReleasedSubscriptionIsSilent ==
    [][subscription = "released" =>
          /\ subscription' = "released"
          /\ HandlerStep => UNCHANGED <<user, session, isLoading>>]_vars

----------------------------------------------------------------------------
(* Termination of generateImage *)

\* C23: every generateImage call eventually returns, an asset or null, with
\* isGenerating set to false by its return, whatever the pre-load does: also
\* when the first image and every fallback image fail to load.
C23_GenerateEventuallyReturns ==
    \A g \in 1..MaxCalls :
        (Len(gens) >= g) ~> (Len(gens) >= g /\ gens[g].pc = "done")

----------------------------------------------------------------------------
(* Quiescence of the Session Manager *)

\* C24: once the inputs and external events have ceased, the Session Manager
\* comes to rest: from some point on no refreshUser is waiting for the profile
\* store, so the effects of the views have started only finitely many fetches.
C24_RefreshEventuallyRests == <>[](refreshOp.pc # "profile")

----------------------------------------------------------------------------
(* Races of the Session Manager *)

\* C25: once logout has resolved successfully, nobody has signed in since, and
\* every pending profile fetch (of refreshUser, of an event handler, of
\* initializeAuth) has completed, user is null.
C25_LogoutNotUndoneByPendingFetch ==
    (/\ op.kind = "logout"
     /\ op.pc = "resolved"
     /\ remote = Null
     /\ Quiescent)
    => user = NoUser

\* C27: isLoading is true whenever initializeAuth, a session-change handler
\* or a session operation (login, signup, logout, an OAuth login) is suspended
\* at an await; so it is never false before the initial session is resolved.
C27_LoadingWhileInFlight ==
    (InFlight(initOp) \/ handlers # <<>> \/ InFlight(op)) => isLoading

----------------------------------------------------------------------------
(* Races of the Asset History Manager *)

\* No loadUserImages is in flight, neither one of the effect nor the reload of
\* a generateImage call.
NoLoadInFlight ==
    /\ loads = <<>>
    /\ \A g \in 1..Len(gens) : gens[g].pc \notin {"reloadList", "reloadSign"}

\* C26: whenever the user is null and no history load is in flight, history
\* is empty.
C26_AnonymousHistoryEmpty ==
    (user = NoUser /\ NoLoadInFlight) => history = <<>>

\* C28: isGenerating is true whenever a generateImage call has not returned
\* yet, also when two calls overlap and the first of them returns.
C28_GeneratingWhileAnyCallRuns ==
    (\E g \in 1..Len(gens) : gens[g].pc # "done") => isGenerating

\* The object is referenced by a ledger row of the account it is stored for.
Referenced(o) ==
    \E k \in 1..Len(ledger) :
        ledger[k].storage_path = o /\ ledger[k].user_id = o.dir

\* C29: once no generateImage and no clearHistory call is in flight, every
\* object in the Object Store is referenced by a ledger row of its account.
C29_NoOrphanedObject ==
    (/\ \A g \in 1..Len(gens) : gens[g].pc = "done"
     /\ clearOp.pc \in {"idle", "done"})
    => \A o \in objects : Referenced(o)

----------------------------------------------------------------------------
(* The URL of the generated asset *)

\* The pre-load of call g ends with a fallback image loaded: onerror had fired
\* for the first URL (the timer is cleared) and onload now resolves.
FallbackLoaded(g) ==
    /\ gens[g].pc = "preload"
    /\ ~gens[g].timer
    /\ gens'[g].pc \notin {"preload"}
    /\ gens'[g].img # NoAsset

\* C30: when the first URL failed to load and a fallback URL loaded instead,
\* the asset generateImage builds carries the fallback URL, not the URL that
\* failed.
C30_AssetCarriesLoadedUrl ==
    [][\A g \in 1..Len(gens) :
          FallbackLoaded(g) => gens'[g].img.imageUrl = FallbackUrl]_vars

============================================================================
